---- MODULE Spec2Model ----
(***************************************************************************)
(* A model of src/src/linked_list.rs: LinkedList<T>, a singly linked list  *)
(* of boxed nodes, with push, pop, insert, iter/next, From<Vec<T>> and     *)
(* Display.                                                                *)
(*                                                                         *)
(* The heap is a function from node identities (positive integers) to      *)
(* Node records; a NodePointer (Option<Box<Node<T>>>) is 0 for None and a  *)
(* node identity for Some(box).                                            *)
(***************************************************************************)
EXTENDS Integers, Sequences, FiniteSets, TLC

\* ------------------------------------------------------------------ bounds
\* The largest number of nodes a list holds in the model.
MaxNodes == 3
\* Element values are 1..MaxVal (T = i32 in the tests).
MaxVal == 2
\* The number of iterator handles that may exist at once.
MaxIters == 2

Values == 1..MaxVal
\* Indices given to insert: every position of the longest list, and beyond.
Indices == 0..(MaxNodes + 2)
ItIds == 1..MaxIters

\* ------------------------------------------------------------ data model
\* NodePointer<T> = Option<Box<Node<T>>>: None is 0.
None == 0

\* LinkedList::new(): head is None and no node exists.
New == [head |-> None, nodes |-> <<>>]

\* Box::new: the allocator returns an address not in use.
Alloc(nodes) ==
    CHOOSE n \in 1..(Cardinality(DOMAIN nodes) + 1) :
        /\ n \notin DOMAIN nodes
        /\ \A m \in 1..(Cardinality(DOMAIN nodes) + 1) :
               m \notin DOMAIN nodes => n <= m

\* Dropping a Box<Node<T>> whose next was moved out: the node is freed.
Free(nodes, n) == [m \in (DOMAIN nodes) \ {n} |-> nodes[m]]

\* Results of the operations: Option<T>, Option<&T>, Result<(), Error>, ().
Unit == [tag |-> "Unit", val |-> 0, ref |-> None]
RetNone == [tag |-> "None", val |-> 0, ref |-> None]
RetSome(v) == [tag |-> "Some", val |-> v, ref |-> None]
RetSomeRef(nodes, n) == [tag |-> "Some", val |-> nodes[n].value, ref |-> n]
Ok == [tag |-> "Ok", val |-> 0, ref |-> None]
ErrOutOfBounds == [tag |-> "Err", val |-> 0, ref |-> None]

\* ------------------------------------------------------------ operations
\* A mutant of push: the new node does not take the old head as its next.
PushDropsTail(L, value) ==
    LET n == Alloc(L.nodes)
    IN  [head |-> n, nodes |-> (n :> [value |-> value, next |-> None]) @@ L.nodes]

\* LinkedList::push: the new node's next takes the head, head owns the node.
Push(L, value) ==
    LET n == Alloc(L.nodes)
    IN  [head |-> n,
         nodes |-> (n :> [value |-> value, next |-> L.head]) @@ L.nodes]

\* A mutant of pop: the head is taken and never reassigned.
PopDropsAll(L) ==
    IF L.head = None
    THEN [list |-> L, ret |-> RetNone]
    ELSE [list |-> [head |-> None, nodes |-> Free(L.nodes, L.head)],
          ret |-> RetSome(L.nodes[L.head].value)]

\* A mutant of pop: popping an empty list reports an error.
PopEmptyFails(L) ==
    IF L.head = None
    THEN [list |-> L, ret |-> [tag |-> "Err", val |-> 0, ref |-> None]]
    ELSE [list |-> [head |-> L.nodes[L.head].next,
                    nodes |-> Free(L.nodes, L.head)],
          ret |-> RetSome(L.nodes[L.head].value)]

\* A mutant of pop: the head's value is returned and the node stays.
PopPeeks(L) ==
    IF L.head = None
    THEN [list |-> L, ret |-> RetNone]
    ELSE [list |-> L, ret |-> RetSome(L.nodes[L.head].value)]

\* LinkedList::pop: head.take().map(|node| { head = node.next; node.value }).
Pop(L) ==
    IF L.head = None
    THEN [list |-> [head |-> None, nodes |-> L.nodes], ret |-> RetNone]
    ELSE LET node == L.head
         IN  [list |-> [head |-> L.nodes[node].next,
                        nodes |-> Free(L.nodes, node)],
              ret |-> RetSome(L.nodes[node].value)]

\* A mutant of the splice: the taken next is not given to the new node, and
\* the nodes after the insertion point leave the list.
SpliceDropsRest(L, node, value) ==
    LET n == Alloc(L.nodes)
    IN  [head |-> L.head,
         nodes |-> (n :> [value |-> value, next |-> None])
                   @@ [L.nodes EXCEPT ![node].next = n]]

\* The splice of insert: new_node.next = node.next.take(); node.next = new.
Splice(L, node, value) ==
    LET n == Alloc(L.nodes)
    IN  [head |-> L.head,
         nodes |-> (n :> [value |-> value, next |-> L.nodes[node].next])
                   @@ [L.nodes EXCEPT ![node].next = n]]

\* The while-let loop of insert; current is the pointer the loop looks at,
\* visits the number of nodes the loop has bound to node.
RECURSIVE InsertLoop(_, _, _, _, _)
InsertLoop(L, current, count, index, value) ==
    IF current = None
    THEN [list |-> L, ret |-> ErrOutOfBounds, visits |-> count]
    ELSE IF count + 1 = index
         THEN [list |-> Splice(L, current, value), ret |-> Ok,
               visits |-> count + 1]
         ELSE InsertLoop(L, L.nodes[current].next, count + 1, index, value)

\* A mutant of the loop: the splice is made one node too late
\* (count == index in place of count + 1 == index).
RECURSIVE InsertLoopLate(_, _, _, _, _)
InsertLoopLate(L, current, count, index, value) ==
    IF current = None
    THEN [list |-> L, ret |-> ErrOutOfBounds, visits |-> count]
    ELSE IF count = index
         THEN [list |-> Splice(L, current, value), ret |-> Ok,
               visits |-> count + 1]
         ELSE InsertLoopLate(L, L.nodes[current].next, count + 1, index, value)

InsertOffByOne(L, index, value) ==
    IF index = 0
    THEN [list |-> Push(L, value), ret |-> Ok, visits |-> 0]
    ELSE InsertLoopLate(L, L.head, 0, index, value)

\* A mutant of the loop: a node whose next is None is not a splice target.
RECURSIVE InsertLoopNoTail(_, _, _, _, _)
InsertLoopNoTail(L, current, count, index, value) ==
    IF current = None \/ L.nodes[current].next = None
    THEN [list |-> L, ret |-> ErrOutOfBounds, visits |-> count]
    ELSE IF count + 1 = index
         THEN [list |-> Splice(L, current, value), ret |-> Ok,
               visits |-> count + 1]
         ELSE InsertLoopNoTail(L, L.nodes[current].next, count + 1, index, value)

InsertNoAppend(L, index, value) ==
    IF index = 0
    THEN [list |-> Push(L, value), ret |-> Ok, visits |-> 0]
    ELSE InsertLoopNoTail(L, L.head, 0, index, value)

\* A mutant of insert: an index past the end appends instead of failing.
InsertClamps(L, index, value) ==
    IF index = 0
    THEN [list |-> Push(L, value), ret |-> Ok, visits |-> 0]
    ELSE LET r == InsertLoop(L, L.head, 0, index, value)
         IN  IF r.ret = ErrOutOfBounds /\ L.head # None
             THEN InsertLoop(L, L.head, 0, Cardinality(DOMAIN L.nodes), value)
             ELSE r

\* A mutant of insert: the walk takes the head out of the list and a failed
\* walk does not put it back.
InsertErrLosesList(L, index, value) ==
    IF index = 0
    THEN [list |-> Push(L, value), ret |-> Ok, visits |-> 0]
    ELSE LET r == InsertLoop(L, L.head, 0, index, value)
         IN  IF r.ret = ErrOutOfBounds
             THEN [list |-> New, ret |-> ErrOutOfBounds, visits |-> r.visits]
             ELSE r

\* A mutant of insert: index 0 is not special-cased and goes through the loop.
InsertZeroWalks(L, index, value) == InsertLoop(L, L.head, 0, index, value)

\* A mutant of insert: the whole list is walked first, to learn its length.
InsertWalksAll(L, index, value) ==
    LET r == IF index = 0
             THEN [list |-> Push(L, value), ret |-> Ok, visits |-> 0]
             ELSE InsertLoop(L, L.head, 0, index, value)
    IN  [r EXCEPT !.visits = Cardinality(DOMAIN L.nodes)]

\* LinkedList::insert.
Insert(L, index, value) ==
    IF index = 0
    THEN [list |-> Push(L, value), ret |-> Ok, visits |-> 0]
    ELSE InsertLoop(L, L.head, 0, index, value)

\* From<Vec<T>>::from: push the elements of vec, last one first.
RECURSIVE FromLoop(_, _, _)
FromLoop(list, vec, i) ==
    IF i = 0 THEN list ELSE FromLoop(Push(list, vec[i]), vec, i - 1)

\* A mutant of from: the vector is pushed first element first (no rev()).
RECURSIVE FromLoopForward(_, _, _)
FromLoopForward(list, vec, i) ==
    IF i > Len(vec)
    THEN list
    ELSE FromLoopForward(Push(list, vec[i]), vec, i + 1)

FromNoRev(vec) == FromLoopForward(New, vec, 1)

From(vec) == FromLoop(New, vec, Len(vec))

\* Display::fmt: "<value> -> " for each node from the head, then "None".
RECURSIVE FmtLoop(_, _)
FmtLoop(L, current) ==
    IF current = None
    THEN "None"
    ELSE ToString(L.nodes[current].value) \o " -> "
         \o FmtLoop(L, L.nodes[current].next)

\* The nodes the loop of fmt binds to node.
RECURSIVE FmtVisits(_, _)
FmtVisits(L, current) ==
    IF current = None THEN 0 ELSE 1 + FmtVisits(L, L.nodes[current].next)

\* A mutant of fmt: " -> " only between two elements, and no "None" after
\* the last one.
RECURSIVE FmtLoopJoin(_, _)
FmtLoopJoin(L, current) ==
    IF current = None
    THEN "None"
    ELSE IF L.nodes[current].next = None
         THEN ToString(L.nodes[current].value)
         ELSE ToString(L.nodes[current].value) \o " -> "
              \o FmtLoopJoin(L, L.nodes[current].next)

FmtJoin(L) == FmtLoopJoin(L, L.head)

Fmt(L) == FmtLoop(L, L.head)

\* LinkedList::iter: a cursor at the head.
Iter(L) == [live |-> TRUE, current |-> L.head, yielded |-> <<>>]

\* A mutant of next: current is taken and not set to the node's next.
IterNextNoAdvance(L, it) ==
    IF it.current = None
    THEN [it |-> it, ret |-> RetNone]
    ELSE [it |-> [live |-> TRUE,
                  current |-> None,
                  yielded |-> Append(it.yielded, it.current)],
          ret |-> RetSomeRef(L.nodes, it.current)]

\* A mutant of next: an iterator at its end starts again from the head.
IterNextRestarts(L, it) ==
    LET at == IF it.current = None THEN L.head ELSE it.current
    IN  IF at = None
        THEN [it |-> it, ret |-> RetNone]
        ELSE [it |-> [live |-> TRUE,
                      current |-> L.nodes[at].next,
                      yielded |-> Append(it.yielded, at)],
              ret |-> RetSomeRef(L.nodes, at)]

\* LinkedListIterator::next: current.take().map(|node| { current = node.next;
\* &node.value }).  yielded records the references handed out so far.
IterNext(L, it) ==
    IF it.current = None
    THEN [it |-> it, ret |-> RetNone]
    ELSE [it |-> [live |-> TRUE,
                  current |-> L.nodes[it.current].next,
                  yielded |-> Append(it.yielded, it.current)],
          ret |-> RetSomeRef(L.nodes, it.current)]

\* ------------------------------------------------------ observing the list
\* The nodes reached from pointer p by following next, at most fuel of them.
RECURSIVE Walk(_, _, _)
Walk(L, p, fuel) ==
    IF p = None \/ fuel = 0
    THEN <<>>
    ELSE <<p>> \o Walk(L, L.nodes[p].next, fuel - 1)

Path(L) == Walk(L, L.head, Cardinality(DOMAIN L.nodes) + 1)

ContentsOf(L) ==
    LET path == Path(L)
    IN  [i \in 1..Len(path) |-> L.nodes[path[i]].value]

\* ------------------------------------------- the statements of an operation
\* The states an operation goes through, one per statement that moves
\* ownership: the head, the nodes, and locals, the pointers the running
\* operation holds in its own variables and temporaries.
Machine(h, ns, ls) == [head |-> h, nodes |-> ns, locals |-> ls]

\* A mutant of push: the head is copied into the new node and replaced
\* afterwards, in place of taken first.
PushStepsCopy(L, value) ==
    LET n == Alloc(L.nodes)
        boxed == (n :> [value |-> value, next |-> L.head]) @@ L.nodes
    IN  << Machine(L.head, L.nodes, <<>>),
           Machine(L.head, L.nodes, <<L.head>>),
           Machine(L.head, boxed, <<n>>),
           Machine(n, boxed, <<>>) >>

\* LinkedList::push: self.head.take(); Box::new(Node { value, next });
\* self.head = Some(node).
PushSteps(L, value) ==
    LET n == Alloc(L.nodes)
        boxed == (n :> [value |-> value, next |-> L.head]) @@ L.nodes
    IN  << Machine(L.head, L.nodes, <<>>),
           Machine(None, L.nodes, <<L.head>>),
           Machine(None, boxed, <<n>>),
           Machine(n, boxed, <<>>) >>

\* LinkedList::pop: self.head.take(); self.head = node.next (moved out of
\* the node); node.value is returned and the box is dropped.
PopSteps(L) ==
    IF L.head = None
    THEN << Machine(L.head, L.nodes, <<>>),
            Machine(None, L.nodes, <<None>>) >>
    ELSE LET node == L.head
             moved == [L.nodes EXCEPT ![node].next = None]
         IN  << Machine(L.head, L.nodes, <<>>),
                Machine(None, L.nodes, <<node>>),
                Machine(L.nodes[node].next, moved, <<node>>),
                Machine(L.nodes[node].next, Free(L.nodes, node), <<>>) >>

\* The splice of insert: node.next.take(); Box::new(Node { value, next });
\* node.next = Some(new_node).
SpliceSteps(L, node, value) ==
    LET n == Alloc(L.nodes)
        rest == L.nodes[node].next
        taken == [L.nodes EXCEPT ![node].next = None]
        boxed == (n :> [value |-> value, next |-> rest]) @@ taken
    IN  << Machine(L.head, L.nodes, <<>>),
           Machine(L.head, taken, <<rest>>),
           Machine(L.head, boxed, <<n>>),
           Machine(L.head, [boxed EXCEPT ![node].next = n], <<>>) >>

\* The loop of insert: the walk borrows and moves nothing.
RECURSIVE InsertLoopSteps(_, _, _, _, _)
InsertLoopSteps(L, current, count, index, value) ==
    IF current = None
    THEN << Machine(L.head, L.nodes, <<>>) >>
    ELSE IF count + 1 = index
         THEN SpliceSteps(L, current, value)
         ELSE InsertLoopSteps(L, L.nodes[current].next, count + 1, index,
                              value)

\* LinkedList::insert.
InsertSteps(L, index, value) ==
    IF index = 0
    THEN PushSteps(L, value)
    ELSE InsertLoopSteps(L, L.head, 0, index, value)

\* ----------------------------------------------------------------- state
VARIABLES
    head,    \* LinkedList.head
    nodes,   \* the boxed nodes: identity -> [value, next]
    iters,   \* the LinkedListIterator handles
    op,      \* the last call and what it returned
    run      \* the pushes made in a row: the contents before, the values,
             \* and what the pops that follow them return

vars == <<head, nodes, iters, op, run>>

List == [head |-> head, nodes |-> nodes]
Contents == ContentsOf(List)
Render == Fmt(List)

NoIter == [live |-> FALSE, current |-> None, yielded |-> <<>>]

Call(name, index, value, vec, it, ret) ==
    [name |-> name, index |-> index, value |-> value, vec |-> vec,
     it |-> it, ret |-> ret]

NoRun == [base |-> <<>>, values |-> <<>>, popped |-> <<>>]

\* A mutant of the borrow rule: &mut self calls are accepted while an
\* iterator borrows the list (the cursor held as a raw pointer).
NoBorrowCheck == TRUE

\* A &mut self call needs that no iterator borrows the list.
Unborrowed == \A i \in ItIds : ~iters[i].live

Init ==
    /\ head = New.head
    /\ nodes = New.nodes
    /\ iters = [i \in ItIds |-> NoIter]
    /\ op = Call("new", 0, 0, <<>>, 0, Unit)
    /\ run = NoRun

DoPush ==
    \E value \in Values :
        /\ Unborrowed
        /\ Cardinality(DOMAIN nodes) < MaxNodes
        /\ head' = Push(List, value).head
        /\ nodes' = Push(List, value).nodes
        /\ op' = Call("push", 0, value, <<>>, 0, Unit)
        /\ run' = IF op.name = "push"
                  THEN [run EXCEPT !.values = Append(@, value)]
                  ELSE [base |-> Contents, values |-> <<value>>,
                        popped |-> <<>>]
        /\ UNCHANGED iters

DoPop ==
    /\ Unborrowed
    /\ head' = Pop(List).list.head
    /\ nodes' = Pop(List).list.nodes
    /\ op' = Call("pop", 0, 0, <<>>, 0, Pop(List).ret)
    /\ run' = IF Len(run.popped) < Len(run.values)
              THEN [run EXCEPT !.popped = Append(@, Pop(List).ret.val)]
              ELSE NoRun
    /\ UNCHANGED iters

DoInsert ==
    \E index \in Indices, value \in Values :
        /\ Unborrowed
        /\ Cardinality(DOMAIN Insert(List, index, value).list.nodes) <= MaxNodes
        /\ head' = Insert(List, index, value).list.head
        /\ nodes' = Insert(List, index, value).list.nodes
        /\ op' = Call("insert", index, value, <<>>, 0,
                      Insert(List, index, value).ret)
        /\ run' = NoRun
        /\ UNCHANGED iters

\* let list = LinkedList::from(vec): the list is constructed from a vector
\* instead of by new().
DoFrom ==
    \E len \in 0..MaxNodes :
        \E vec \in [1..len -> Values] :
            /\ op.name = "new"
            /\ head' = From(vec).head
            /\ nodes' = From(vec).nodes
            /\ op' = Call("from", 0, 0, vec, 0, Unit)
            /\ run' = NoRun
            /\ UNCHANGED iters

DoIter ==
    \E i \in ItIds :
        /\ ~iters[i].live
        /\ iters' = [iters EXCEPT ![i] = Iter(List)]
        /\ op' = Call("iter", 0, 0, <<>>, i, Unit)
        /\ run' = NoRun
        /\ UNCHANGED <<head, nodes>>

\* A mutant of next: the iterator consumes the list, each call pops the head.
DoNextConsumes ==
    \E i \in ItIds :
        /\ iters[i].live
        /\ iters' = [iters EXCEPT ![i] = IterNext(List, iters[i]).it]
        /\ op' = Call("next", 0, 0, <<>>, i, IterNext(List, iters[i]).ret)
        /\ run' = NoRun
        /\ head' = Pop(List).list.head
        /\ nodes' = Pop(List).list.nodes

\* A mutant of next: the cursor is shared, a call advances every iterator.
DoNextSharedCursor ==
    \E i \in ItIds :
        /\ iters[i].live
        /\ iters' = [j \in ItIds |->
                        IF iters[j].live
                        THEN IterNext(List, iters[i]).it
                        ELSE iters[j]]
        /\ op' = Call("next", 0, 0, <<>>, i, IterNext(List, iters[i]).ret)
        /\ run' = NoRun
        /\ UNCHANGED <<head, nodes>>

DoNext ==
    \E i \in ItIds :
        /\ iters[i].live
        /\ iters' = [iters EXCEPT ![i] = IterNext(List, iters[i]).it]
        /\ op' = Call("next", 0, 0, <<>>, i, IterNext(List, iters[i]).ret)
        /\ run' = NoRun
        /\ UNCHANGED <<head, nodes>>

\* The iterator goes out of scope and its borrow of the list ends.
DoDropIter ==
    \E i \in ItIds :
        /\ iters[i].live
        /\ iters' = [iters EXCEPT ![i] = NoIter]
        /\ op' = Call("drop_iter", 0, 0, <<>>, i, Unit)
        /\ run' = NoRun
        /\ UNCHANGED <<head, nodes>>

Next ==
    \/ DoPush
    \/ DoPop
    \/ DoInsert
    \/ DoFrom
    \/ DoIter
    \/ DoNext
    \/ DoDropIter

Spec == Init /\ [][Next]_vars

\* ------------------------------------------------------------ properties
Reverse(seq) == [i \in 1..Len(seq) |-> seq[Len(seq) + 1 - i]]

\* The rendering the specification gives for contents seq:
\* "<v1> -> <v2> -> ... -> <vn> -> None".
RECURSIVE Rendering(_)
Rendering(seq) ==
    IF seq = <<>>
    THEN "None"
    ELSE ToString(Head(seq)) \o " -> " \o Rendering(Tail(seq))

\* The list obtained from L by push(seq[1]), push(seq[2]), ...
RECURSIVE PushEach(_, _)
PushEach(L, seq) ==
    IF seq = <<>> THEN L ELSE PushEach(Push(L, Head(seq)), Tail(seq))

\* C1: after push(v1), ..., push(vn) on a list with contents s the contents
\* are <vn, ..., v1> followed by s; on the empty list the rendering is
\* "vn -> ... -> v1 -> None".
C1_PushPrepends ==
    op.name = "push" =>
        /\ Contents = Reverse(run.values) \o run.base
        /\ run.base = <<>> => Render = Rendering(Reverse(run.values))

C1_Witness ==
    /\ op.name = "push"
    /\ Len(run.values) = 2
    /\ run.values[1] # run.values[2]
    /\ run.base # <<>>

\* C2: pop on a list with contents <h> followed by t returns Some(h) and
\* leaves the contents t: the rendering loses its first "<h> -> " segment.
C2_PopRemovesHead ==
    [][(op'.name = "pop" /\ head # None) =>
          /\ op'.ret = RetSome(Head(Contents))
          /\ Contents' = Tail(Contents)
          /\ Path(List)' = Tail(Path(List))
          /\ Render = ToString(Head(Contents)) \o " -> " \o Render']_vars

C2_Witness ==
    /\ op.name = "pop"
    /\ op.ret.tag = "Some"
    /\ Len(Contents) = 2
    /\ Contents[1] # Contents[2]

\* C3: insert(k, x) with 0 <= k <= n on a list with contents s of length n
\* returns Ok and leaves s[0..k), x, s[k..n).
C3_InsertAtIndex ==
    [][(op'.name = "insert" /\ op'.index <= Len(Contents)) =>
          /\ op'.ret = Ok
          /\ Contents' = SubSeq(Contents, 1, op'.index)
                         \o <<op'.value>>
                         \o SubSeq(Contents, op'.index + 1, Len(Contents))]_vars

C3_Witness ==
    /\ op.name = "insert"
    /\ op.ret = Ok
    /\ op.index = 1
    /\ Len(Contents) = 3
    /\ Contents[1] # Contents[2]

C5_FailedInsertNoEffect ==
    [][(op'.name = "insert" /\ op'.ret = ErrOutOfBounds) =>
          /\ head' = head
          /\ nodes' = nodes
          /\ Render' = Render]_vars

C5_Witness ==
    /\ op.name = "insert"
    /\ op.ret = ErrOutOfBounds
    /\ Len(Contents) = 2

\* C6: insert(n, x) on a list of n elements returns Ok and makes x the last
\* element, the n elements before it unchanged.
C6_AppendBoundary ==
    [][(op'.name = "insert" /\ op'.index = Len(Contents)) =>
          /\ op'.ret = Ok
          /\ Contents' = Append(Contents, op'.value)
          /\ Render' = Rendering(Append(Contents, op'.value))
          /\ nodes'[Path(List')[Len(Contents) + 1]].next = None]_vars

C6_Witness ==
    /\ op.name = "insert"
    /\ op.ret = Ok
    /\ op.index = 2
    /\ Len(Contents) = 3

\* C7: insert(0, x) returns Ok and leaves the list push(x) leaves.
C7_InsertZeroIsPush ==
    [][(op'.name = "insert" /\ op'.index = 0) =>
          /\ op'.ret = Ok
          /\ List' = Push(List, op'.value)
          /\ Contents' = <<op'.value>> \o Contents]_vars

C7_Witness ==
    /\ op.name = "insert"
    /\ op.index = 0
    /\ op.ret = Ok
    /\ Len(Contents) = 3

\* C8: pop on an empty list returns None and leaves the list empty.
C8_PopEmpty ==
    [][(op'.name = "pop" /\ head = None) =>
          /\ op'.ret = RetNone
          /\ head' = None
          /\ nodes' = <<>>
          /\ Render' = "None"]_vars

C8_Witness ==
    /\ op.name = "pop"
    /\ op.ret = RetNone
    /\ head = None

\* C9: from(q) gives a list whose contents are q, the list obtained by
\* pushing the elements of q onto an empty list in reverse order.
C9_FromPreservesOrder ==
    op.name = "from" =>
        /\ Contents = op.vec
        /\ Render = Rendering(op.vec)
        /\ List = PushEach(New, Reverse(op.vec))

C9_Witness ==
    /\ op.name = "from"
    /\ Len(op.vec) = 3
    /\ op.vec[1] # op.vec[3]

\* C10: a fresh iterator starts at the head; its next() calls yield
\* references to the nodes in head-to-tail order, one per node, and None
\* once all n have been yielded.
C10_IterYieldsInOrder ==
    LET path == Path(List)
    IN  /\ \A i \in ItIds :
               iters[i].live =>
                   LET k == Len(iters[i].yielded)
                   IN  /\ k <= Len(path)
                       /\ iters[i].yielded = SubSeq(path, 1, k)
        /\ op.name = "iter" =>
               /\ iters[op.it].yielded = <<>>
               /\ iters[op.it].current = head
        /\ op.name = "next" =>
               LET k == Len(iters[op.it].yielded)
               IN  /\ op.ret.tag = "Some" =>
                          /\ op.ret.ref = path[k]
                          /\ op.ret.val = nodes[path[k]].value
                   /\ op.ret.tag = "None" => iters[op.it].yielded = path
                   /\ op.ret.tag \in {"Some", "None"}

C10_Witness ==
    /\ op.name = "next"
    /\ op.ret = RetNone
    /\ Len(iters[op.it].yielded) = 3
    /\ Contents[1] # Contents[2]

\* C11: iter() and every next() call, before, at and past exhaustion, and
\* the end of the iterator leave the head and every node and link, and so
\* the contents and the rendering, as they were.
C11_IterationKeepsList ==
    [][op'.name \in {"iter", "next", "drop_iter"} =>
          /\ head' = head
          /\ nodes' = nodes
          /\ Len(Path(List')) = Len(Path(List))]_vars

C11_Witness ==
    /\ op.name = "next"
    /\ op.ret.tag = "Some"
    /\ Len(iters[op.it].yielded) = 2
    /\ Len(Contents) = 3
    /\ Render = "2 -> 1 -> 1 -> None"

\* C12: a next() call on one iterator leaves every other iterator as it
\* was, and returns the node at that iterator's own position in the
\* head-to-tail order (None past the last), whatever the others have done.
C12_IteratorsIndependent ==
    [][op'.name = "next" =>
          LET i == op'.it
              k == Len(iters[i].yielded)
          IN  /\ \A j \in ItIds \ {i} : iters'[j] = iters[j]
              /\ k < Len(Path(List)) =>
                     /\ op'.ret.tag = "Some"
                     /\ op'.ret.ref = Path(List)[k + 1]
                     /\ iters'[i].yielded = SubSeq(Path(List), 1, k + 1)
              /\ k >= Len(Path(List)) =>
                     /\ op'.ret = RetNone
                     /\ iters'[i].yielded = Path(List)]_vars

C12_Witness ==
    /\ op.name = "next"
    /\ op.it = 1
    /\ iters[1].live
    /\ iters[2].live
    /\ Len(iters[1].yielded) = 3
    /\ Len(iters[2].yielded) = 1
    /\ Len(Contents) = 3

\* The values behind a sequence of node references.
ValuesOf(refs) == [j \in 1..Len(refs) |-> nodes[refs[j]].value]

\* C13: the rendering of a list with contents v1..vn is "<vi> -> " for
\* i = 1..n in that order followed by "None", "None" alone for the empty
\* list; an iterator that has run to its end has yielded the values in the
\* order the rendering shows them.
C13_RenderFormat ==
    LET text == Render
    IN  /\ text = Rendering(Contents)
        /\ head = None => text = "None"
        /\ \A i \in ItIds :
               (iters[i].live /\ iters[i].current = None) =>
                   text = Rendering(ValuesOf(iters[i].yielded))

C13_Witness ==
    /\ Render = "1 -> 2 -> 2 -> None"
    /\ \E i \in ItIds :
           /\ iters[i].live
           /\ iters[i].current = None
           /\ Len(iters[i].yielded) = 3

\* The slots that own node m: the head, the next of a node, a local.
ListOwners(M, m) ==
    (IF M.head = m THEN 1 ELSE 0)
    + Cardinality({p \in DOMAIN M.nodes : M.nodes[p].next = m})

LocalOwners(M, m) == Cardinality({j \in DOMAIN M.locals : M.locals[j] = m})

\* Every pointer is None or a node that exists.
NoDangling(M) ==
    /\ M.head \in DOMAIN M.nodes \cup {None}
    /\ \A p \in DOMAIN M.nodes : M.nodes[p].next \in DOMAIN M.nodes \cup {None}
    /\ \A j \in DOMAIN M.locals : M.locals[j] \in DOMAIN M.nodes \cup {None}

\* Following next from any node ends at None.
Acyclic(M) ==
    \A m \in DOMAIN M.nodes :
        Len(Walk(M, m, Cardinality(DOMAIN M.nodes) + 1))
            <= Cardinality(DOMAIN M.nodes)

\* The chain as the list owns it: the path from the head ends at None after
\* as many steps as there are nodes, each owned by the head or by one next.
StrictChain(M) ==
    /\ NoDangling(M)
    /\ Acyclic(M)
    /\ Len(Path(M)) = Cardinality(DOMAIN M.nodes)
    /\ \A m \in DOMAIN M.nodes : ListOwners(M, m) = 1 /\ LocalOwners(M, m) = 0

\* Every node has one owner, which may be a local of the running operation.
SingleOwner(M) ==
    /\ NoDangling(M)
    /\ Acyclic(M)
    /\ \A m \in DOMAIN M.nodes : ListOwners(M, m) + LocalOwners(M, m) = 1

\* The states of every push, pop and insert that can start in this state.
StepsFromHere ==
    UNION ( { {PushSteps(List, v)[j] : j \in 1..Len(PushSteps(List, v))} :
                v \in Values }
            \cup { {PopSteps(List)[j] : j \in 1..Len(PopSteps(List))} }
            \cup { {InsertSteps(List, k, v)[j] :
                       j \in 1..Len(InsertSteps(List, k, v))} :
                    k \in Indices, v \in Values } )

Last(seq) == seq[Len(seq)]
AsList(M) == [head |-> M.head, nodes |-> M.nodes]

\* C14 as stated: in every state, the states between the statements of
\* push, pop and insert included, the next-links from the head form a path
\* that ends at None after as many steps as there are nodes, and each node
\* is owned by the head or by exactly one predecessor's next.
C14_StrictChainAtEveryStep ==
    /\ StrictChain(Machine(head, nodes, <<>>))
    /\ Unborrowed => \A M \in StepsFromHere : StrictChain(M)

\* C14 as amended: where push, pop, insert and from start and end the
\* chain is strict; between the statements of push, pop and insert every
\* node still has exactly one owner, the head, one next or one local of the
\* operation, and the links stay acyclic and never dangle.
C14_SingleOwnerAtEveryStep ==
    Unborrowed =>
           /\ StrictChain(Machine(head, nodes, <<>>))
           /\ \A M \in StepsFromHere : SingleOwner(M)
           /\ \A v \in Values :
                  /\ AsList(Last(PushSteps(List, v))) = Push(List, v)
                  /\ \A k \in Indices :
                         AsList(Last(InsertSteps(List, k, v)))
                             = Insert(List, k, v).list
           /\ AsList(Last(PopSteps(List))) = Pop(List).list

C14_Witness ==
    /\ op.name = "insert"
    /\ op.ret = Ok
    /\ op.index = 1
    /\ Len(Path(List)) = 3
    /\ Cardinality(DOMAIN nodes) = 3
    /\ \E M \in StepsFromHere : \E j \in DOMAIN M.locals : M.locals[j] # None

\* An iterator that has yielded some nodes and not yet all of them.
PartlyAdvanced(i) ==
    /\ iters[i].live
    /\ iters[i].yielded # <<>>
    /\ iters[i].current # None

\* The references iterator i holds are nodes of the list.
RefsInList(i) ==
    /\ iters[i].current \in DOMAIN nodes \cup {None}
    /\ \A j \in 1..Len(iters[i].yielded) : iters[i].yielded[j] \in DOMAIN nodes

\* C15 as stated: while an iterator is partly advanced, push and pop on the
\* same list can be performed, and the iterator refers to no removed node.
C15_MutableWhileIterating ==
    \A i \in ItIds :
        PartlyAdvanced(i) =>
            /\ Cardinality(DOMAIN nodes) < MaxNodes => ENABLED DoPush
            /\ ENABLED DoPop
            /\ RefsInList(i)

\* C15 as amended: while an iterator is live, push and pop cannot be
\* performed and the iterator refers only to nodes of the list; once no
\* iterator is live they can be performed again.
C15_MutableOnlyWhenUnborrowed ==
    /\ \A i \in ItIds :
           iters[i].live =>
               /\ ~ENABLED DoPush
               /\ ~ENABLED DoPop
               /\ RefsInList(i)
    /\ (\A i \in ItIds : ~iters[i].live) =>
           /\ Cardinality(DOMAIN nodes) < MaxNodes => ENABLED DoPush
           /\ ENABLED DoPop

C15_Witness ==
    /\ op.name = "next"
    /\ PartlyAdvanced(op.it)
    /\ Len(Contents) = 2

Min(a, b) == IF a <= b THEN a ELSE b

\* C16: on a list of n elements insert(k, x) visits min(k, n) nodes, also
\* for k far past the end; rendering visits n nodes; an iterator that has
\* run to its end has visited n nodes; push and pop take the same few
\* statements whatever n is.
C16_VisitsBounded ==
    \A n \in {Len(Path(List))} :
        /\ FmtVisits(List, head) = n
        /\ \A i \in ItIds :
               (iters[i].live /\ iters[i].current = None) =>
                   Len(iters[i].yielded) = n
        /\ Unborrowed =>
               /\ \A k \in Indices, v \in Values :
                      /\ Insert(List, k, v).visits = Min(k, n)
                      /\ Insert(List, k, v).ret \in {Ok, ErrOutOfBounds}
               /\ \A v \in Values : Len(PushSteps(List, v)) = 4
               /\ Len(PopSteps(List)) \in {2, 4}

C16_Witness ==
    /\ op.name = "insert"
    /\ op.ret = ErrOutOfBounds
    /\ op.index = MaxNodes + 2
    /\ Len(Contents) = 1
    /\ Insert(List, op.index, op.value).visits = 1

\* C17: after n pushes in a row and then k <= n pops in a row, the pops
\* have returned the last k pushed values, last pushed first, and the list
\* holds the first n - k pushed values in front of the contents it had
\* before the pushes: push(x); pop() returns Some(x) and restores the list.
C17_PushPopLifo ==
    (op.name = "pop" /\ run.values # <<>>) =>
        LET n == Len(run.values)
            k == Len(run.popped)
        IN  /\ k \in 1..n
            /\ run.popped = SubSeq(Reverse(run.values), 1, k)
            /\ op.ret = RetSome(run.values[n - k + 1])
            /\ Contents = Reverse(SubSeq(run.values, 1, n - k)) \o run.base

C17_Witness ==
    /\ op.name = "pop"
    /\ Len(run.values) = 2
    /\ Len(run.popped) = 2
    /\ run.values[1] # run.values[2]
    /\ run.base # <<>>

\* How many times v occurs in seq.
Count(seq, v) == Cardinality({j \in 1..Len(seq) : seq[j] = v})

\* The last call put its value into the list.
Gave(call) ==
    \/ call.name = "push"
    \/ call.name = "insert" /\ call.ret = Ok

\* The call took the list from contents before to contents after and
\* conserved the elements.
Conserves(call, before, after) ==
    /\ \A v \in Values :
           Count(after, v)
           + (IF call.name = "pop" /\ call.ret = RetSome(v) THEN 1 ELSE 0)
           = Count(before, v)
             + (IF Gave(call) /\ call.value = v THEN 1 ELSE 0)
             + (IF call.name = "from" THEN Count(call.vec, v) ELSE 0)
    /\ Len(after) - Len(before)
           = IF Gave(call) THEN 1
             ELSE IF call.name = "pop" /\ before # <<>> THEN 0 - 1
             ELSE IF call.name = "from" THEN Len(call.vec)
             ELSE 0
    /\ call.name = "pop" => (call.ret.tag = "Some" <=> before # <<>>)

\* C18: every call conserves the elements: for each value, its occurrences
\* in the list after the call plus the one the call returned (pop) equal
\* its occurrences before plus the one the call was given (push, successful
\* insert; all of vec for from); the value of a failed insert is not added;
\* the length changes by +1 on push and successful insert, by -1 on pop of
\* a non-empty list and by 0 otherwise.
C18_ElementsConserved ==
    [][IF op'.name \in {"iter", "next", "drop_iter"}
       THEN \* nothing is given or returned: the list is the same
            head' = head /\ nodes' = nodes
       ELSE \A before \in {Contents}, after \in {Contents'} :
                Conserves(op', before, after)]_vars

C18_Witness ==
    /\ op.name = "insert"
    /\ op.ret = ErrOutOfBounds
    /\ Len(Contents) = 2
    /\ Count(Contents, op.value) = 0

\* C19: when next() has returned None the cursor is None, and a next() call
\* on an iterator whose cursor is None returns None and leaves the iterator
\* as it is; no iterator has yielded a node twice.
C19_FusedIterator ==
    /\ op.name = "next" /\ op.ret = RetNone => iters[op.it].current = None
    /\ \A i \in ItIds :
           iters[i].live =>
               /\ iters[i].current = None =>
                      /\ IterNext(List, iters[i]).ret = RetNone
                      /\ IterNext(List, iters[i]).it = iters[i]
               /\ \A j, k \in 1..Len(iters[i].yielded) :
                      iters[i].yielded[j] = iters[i].yielded[k] => j = k

C19_Witness ==
    /\ op.name = "next"
    /\ op.ret = RetNone
    /\ Len(iters[op.it].yielded) = 2
    /\ \E i \in ItIds \ {op.it} :
           iters[i].live /\ iters[i].current = None /\ Len(Contents) = 2

====
